---- MODULE Spec2Model ----
(***************************************************************************)
(* A model of extract_gpx.py: main() as a state machine over its nested    *)
(* loops (input files, requested date keys, matched track names, track     *)
(* segments, track points), with the parsed document mutated in place as   *)
(* the code does (decompose, insert).                                      *)
(*                                                                         *)
(* Abstractions.  Track points lie on one meridian at integer kilometre    *)
(* positions, so GeoLocation.distance_to is |pos1 - pos2|.  Times are      *)
(* minutes (UTC).  Mileages are kept in hundredths of a mile, so that      *)
(* "* 0.62" is "* 62" and round() is Round100.  A name is the date and     *)
(* time it embeds plus whether it contains 'Active Log'; a date key is a   *)
(* day, with or without a time of day.  Distances in kilometres are binary *)
(* floating point with a short significand (Fl): a small whole number of   *)
(* kilometres is exact, as it is in a double, and a sum that needs more    *)
(* bits is rounded to the nearest value, ties to even.                     *)
(***************************************************************************)
EXTENDS Integers, Sequences, FiniteSets, TLC

(* ------------------------------ bounds -------------------------------- *)
MaxFiles == 2
MaxKeys == 2
MaxPts == 4
SignificandBits == 4

(* ------------------- absent values of the program --------------------- *)
NoTime == -1
NoCourse == -1
NoCutoff == -1

(* ------------------------------ helpers ------------------------------- *)
Abs(x) == IF x < 0 THEN 0 - x ELSE x

Range(s) == {s[i] : i \in 1..Len(s)}

SeqsUpTo(S, n) == UNION {[1..k -> S] : k \in 0..n}

RECURSIVE Flatten(_)
Flatten(ss) == IF ss = <<>> THEN <<>> ELSE Head(ss) \o Flatten(Tail(ss))

RECURSIVE SumSeq(_)
SumSeq(s) == IF s = <<>> THEN 0 ELSE Head(s) + SumSeq(Tail(s))

\* round() of a value held in hundredths: to the nearest integer, ties to even
Round100(n) ==
    LET q == n \div 100
        r == n % 100
    IN  IF r > 50 THEN q + 1
        ELSE IF r < 50 THEN q
        ELSE IF q % 2 = 0 THEN q ELSE q + 1

\* the gap between the floats next to x >= 0
Ulp(x) ==
    LET e == CHOOSE e \in 0..24 :
                 /\ x < 2 ^ (SignificandBits + e)
                 /\ (e = 0 \/ x >= 2 ^ (SignificandBits + e - 1))
    IN  2 ^ e

\* the float nearest to x, ties to the even significand
Fl(x) ==
    LET m == Abs(x)
        u == Ulp(m)
        q == m \div u
        r == m % u
        n == IF 2 * r > u \/ (2 * r = u /\ q % 2 = 1) THEN (q + 1) * u ELSE q * u
    IN  IF x < 0 THEN 0 - n ELSE n

\* float + and -
FAdd(a, b) == Fl(a + b)

FSub(a, b) == Fl(a - b)

\* trackDistance * 0.62, in hundredths of a mile
Miles100(km) == 62 * km

(* ---------------------------- GeoLocation ----------------------------- *)
\* GeoLocation.from_degrees(lat, lon, course) of a <trkpt>; a point without
\* <course> gets math.degrees(MIN_COURSE) = 0
CourseOf(p) == IF p.course # NoCourse THEN p.course ELSE 0

GeoLocationOf(p) == [pos |-> p.pos, course |-> CourseOf(p)]

Dist(a, b) == Fl(Abs(a.pos - b.pos))

(* ------------------------- names and date keys ------------------------ *)
\* re.compile(trackDatetimeString) searched in a <name>'s text
KeyMatches(key, nm) ==
    /\ key.day = nm.day
    /\ (key.hm = NoTime \/ key.hm = nm.hm)

\* trackDatetimeObject.strftime('%Y-%m-%d %H:%M'): a date-only key is midnight
Label(key) == [day |-> key.day, hm |-> IF key.hm = NoTime THEN 0 ELSE key.hm]

\* gpxSoup.find_all('name', string=re.compile(key)): positions, in document
\* order, of the tracks that still have a <name> and whose name matches
FindNames(doc, key) ==
    LET F[i \in 0..Len(doc)] ==
            IF i = 0 THEN <<>>
            ELSE IF doc[i].name # <<>> /\ KeyMatches(key, doc[i].name[1])
                 THEN Append(F[i - 1], i)
                 ELSE F[i - 1]
    IN  F[Len(doc)]

\* gpxSoup('name', string=re.compile('Active Log'))
FindActive(doc) ==
    LET F[i \in 0..Len(doc)] ==
            IF i = 0 THEN <<>>
            ELSE IF doc[i].name # <<>> /\ doc[i].name[1].active
                 THEN Append(F[i - 1], i)
                 ELSE F[i - 1]
    IN  F[Len(doc)]

DictKeysLastFirst(keys) ==
    LET F[i \in 0..Len(keys)] ==
            IF i = 0 THEN <<>>
            ELSE IF keys[i] \in Range(F[i - 1]) THEN F[i - 1]
                 ELSE <<keys[i]>> \o F[i - 1]
    IN  F[Len(keys)]

\* parsedTrackDatetimes: a dict keyed by the normalised string, so a repeated
\* key keeps the place of its first occurrence
DictKeys(keys) ==
    LET F[i \in 0..Len(keys)] ==
            IF i = 0 THEN <<>>
            ELSE IF keys[i] \in Range(F[i - 1]) THEN F[i - 1]
                 ELSE Append(F[i - 1], keys[i])
    IN  F[Len(keys)]

(* ------------------------------ cutoff -------------------------------- *)
\* timedelta(hours=int('[+-]hh'), minutes=int('mm')), in minutes
OffsetMinutes(off) ==
    IF off = <<>> THEN 0 ELSE off[1] * off[2] * 60 + off[3]

\* the instant of cutoffDatetime.replace(tzinfo=timezone(offset)), in UTC
CutoffInstant(a) == a.datetimeCutoff - OffsetMinutes(a.timeOffsetFromUTC)

\* trackPointDatetime > cutoffDatetime, for a point that has a <time>
AfterCutoff(p, cutoff) == p.time # NoTime /\ p.time > cutoff

(* ----------------------------- thinning ------------------------------- *)
KeepDistanceNotLast(geo, nxt, thin, last) == Dist(geo, nxt) > thin

KeepDistance(geo, nxt, thin, last) == Dist(geo, nxt) > thin \/ last

KeepOrientation(geo, nxt, thin, last) ==
    Abs(nxt.course - geo.course) > thin \/ last

(* --------------------------- error checks ----------------------------- *)
MultipleMatch(found, combine) == found > 1 /\ ~combine

NoMatchOffByOne(selected) == Len(selected) <= 1

NoMatch(selected) == Len(selected) = 0

(* ------------------------------- state -------------------------------- *)
VARIABLES
    args,                   \* the parsed command line
    files,                  \* the input files named by -i, in order
    pc,                     \* where main() is
    exit,                   \* how main() ended
    parsedTrackDatetimes,   \* the distinct date keys, in order
    cutoffDatetime,         \* the cutoff instant
    fileI,                  \* position of inputFile in inputFiles
    gpxSoup,                \* the parsed document of inputFile
    selectedTracks, tracksForDates, totalDistance, trackDistance,
    tracksFound, courseFound, combinedDates, combinedDatesBound,
    keyI,                   \* position of the key in parsedTrackDatetimes
    trackNames, tnI,        \* the matched names and the position in them
    combinedTracks,
    track,                  \* the <trk> being walked
    segsDone, segsTodo,     \* its segments: walked (and kept), to walk
    ptsDone, ptsTodo,       \* the segment's points: walked (and kept), to walk
    segDistance, geoLocation, prevGeoLocation,
    outFile,                \* the content written to outputFile
    queries,                \* the find_all calls of line 396, in order
    geoObj, geoRaised       \* a GeoLocation a caller holds; its last call raised

vars == <<args, files, pc, exit, parsedTrackDatetimes, cutoffDatetime, fileI,
          gpxSoup, selectedTracks, tracksForDates, totalDistance,
          trackDistance, tracksFound, courseFound, combinedDates,
          combinedDatesBound, keyI, trackNames, tnI, combinedTracks, track,
          segsDone, segsTodo, ptsDone, ptsTodo, segDistance, geoLocation,
          prevGeoLocation, outFile, queries, geoObj, geoRaised>>

geoVars == <<geoObj, geoRaised>>
fileVars == <<tracksFound, courseFound, combinedDates, combinedDatesBound>>
keyVars == <<keyI, trackNames, tnI, combinedTracks>>
trackVars == <<track, segsDone, segsTodo>>
segVars == <<ptsDone, ptsTodo, segDistance, geoLocation, prevGeoLocation>>
inputVars == <<args, files>>
argVars == <<parsedTrackDatetimes, cutoffDatetime>>

Running == [status |-> -1, error |-> "running"]
Exit(status, error) == [status |-> status, error |-> error]

NoGeo == [pos |-> 0, course |-> 0]
NoTrack == [name |-> <<>>, cmt |-> <<>>, segs |-> <<>>]
NoObject == [none |-> TRUE]

\* str(track): the element as text; trk says whether its <trk> tags are kept
TrackString(t, trk) ==
    [trk |-> trk, name |-> t.name, cmt |-> t.cmt, segs |-> t.segs]

\* fileIndex = inputFile.split('/')[-1].split('.')[0]
FileIndexOf(f) == f.fileIndex

(* ------------------------------ inputs -------------------------------- *)
Pt(pos, time, course) == [pos |-> pos, time |-> time, course |-> course]

Nm(day, hm, active) == [day |-> day, hm |-> hm, active |-> active]

Trk(nm, cmt, segs) == [name |-> <<nm>>, cmt |-> cmt, segs |-> segs]

Key(day, hm) == [day |-> day, hm |-> hm]

File(idx, kind, tracks) == [fileIndex |-> idx, kind |-> kind, tracks |-> tracks]

Args(combine, merge, thinD, thinO, cutoff, offset, keys) ==
    [combineAllTracksForDate |-> combine, mergeFiles |-> merge,
     extractDates |-> FALSE,
     thinDistance |-> thinD, thinOrientation |-> thinO,
     datetimeCutoff |-> cutoff, timeOffsetFromUTC |-> offset,
     trackDatetimes |-> keys]

StartState ==
    /\ pc = "args"
    /\ exit = Running
    /\ parsedTrackDatetimes = <<>>
    /\ cutoffDatetime = NoCutoff
    /\ fileI = 0
    /\ gpxSoup = <<>>
    /\ selectedTracks = <<>>
    /\ tracksForDates = {}
    /\ totalDistance = 0
    /\ trackDistance = 0
    /\ tracksFound = 0
    /\ courseFound = TRUE
    /\ combinedDates = <<>>
    /\ combinedDatesBound = FALSE
    /\ keyI = 0
    /\ trackNames = <<>>
    /\ tnI = 0
    /\ combinedTracks = <<>>
    /\ track = NoTrack
    /\ segsDone = <<>>
    /\ segsTodo = <<>>
    /\ ptsDone = <<>>
    /\ ptsTodo = <<>>
    /\ segDistance = 0
    /\ geoLocation = NoGeo
    /\ prevGeoLocation = NoGeo
    /\ outFile = <<>>
    /\ queries = <<>>
    /\ geoObj = NoObject
    /\ geoRaised = FALSE


(* --------------------------- input families --------------------------- *)
\* Documents for the selection runs: whole tracks, not thinned, no cutoff.
SegA == <<Pt(0, 600, 0), Pt(10, 601, 0)>>
SegB == <<Pt(0, 600, 0), Pt(3, 601, 0), Pt(5, 602, 0)>>
SegC == <<Pt(0, 600, 0), Pt(3, 601, 0)>>

TrackA == Trk(Nm(1, 600, TRUE), <<>>, <<SegA>>)
TrackB == Trk(Nm(1, 720, TRUE), <<>>, <<SegB>>)
TrackC == Trk(Nm(2, 600, TRUE), <<4>>, <<SegC>>)
TrackD == Trk(Nm(2, 600, FALSE), <<>>, <<SegC>>)

FileSet ==
    {File("a", "ok", d) :
        d \in {<<TrackA>>, <<TrackA, TrackB>>, <<TrackA, TrackC>>, <<TrackD>>}}
        \cup {File("b", "ok", d) :
                 d \in {<<TrackA>>, <<TrackC>>, <<TrackA, TrackB>>}}
        \cup {File("a", "empty", <<>>), File("a", "unreadable", <<>>)}

KeySet == {Key(1, NoTime), Key(2, NoTime), Key(1, 600)}

\* Segments for the thinning and cutoff runs: one file, one track, one segment.
PointsD == {Pt(pos, time, 0) : pos \in {0, 1, 2}, time \in {600, 660}}

\* for orientation thinning the points are 1 km apart, in order
PointsO == {<<time, course>> : time \in {NoTime, 660}, course \in {NoCourse, 1, 359}}

SegO(s) == [i \in 1..Len(s) |-> Pt(i, s[i][1], s[i][2])]

\* a cutoff and its offset from UTC: none, local = UTC, +01:00, -01:30
Cutoffs ==
    {<<NoCutoff, <<>>>>, <<630, <<>>>>, <<630, <<1, 1, 0>>>>,
     <<570, <<-1, 1, 30>>>>}

SegFile(seg) == <<File("a", "ok", <<Trk(Nm(1, 600, TRUE), <<>>, <<seg>>)>>)>>

\* merge mode reads no date key: one key is enough there
InitSelection ==
    /\ files \in SeqsUpTo(FileSet, MaxFiles)
    /\ args \in {Args(c, FALSE, 0, 0, NoCutoff, <<>>, keys) :
                    c \in BOOLEAN, keys \in SeqsUpTo(KeySet, MaxKeys)}
                \cup {Args(c, TRUE, 0, 0, NoCutoff, <<>>, keys) :
                        c \in BOOLEAN, keys \in {<<>>, <<Key(1, NoTime)>>}}

InitDistance ==
    /\ files \in {SegFile(seg) : seg \in SeqsUpTo(PointsD, MaxPts)}
    /\ args \in {Args(FALSE, FALSE, thin, 0, c[1], c[2], <<Key(1, NoTime)>>) :
                    thin \in {0, 1, 2}, c \in Cutoffs}

\* Segments whose distances add up beyond the significand: the sum of two
\* of them is not a float.
Big == 2 ^ SignificandBits

PointsF == {Pt(pos, time, 0) : pos \in {0, Big \div 2 + 1, Big + 1}, time \in {600, 660}}

InitAccumulate ==
    /\ files \in {SegFile(seg) : seg \in SeqsUpTo(PointsF, MaxPts)}
    /\ args \in {Args(FALSE, FALSE, thin, 0, 630, <<>>, <<Key(1, NoTime)>>) :
                    thin \in {0, 1}}

InitOrientation ==
    /\ files \in {SegFile(SegO(s)) : s \in SeqsUpTo(PointsO, MaxPts)}
    /\ args \in {Args(FALSE, FALSE, 0, 10, c[1], c[2], <<Key(1, NoTime)>>) :
                    c \in Cutoffs}

Init == InitSelection /\ StartState

InitSeg == (InitDistance \/ InitOrientation) /\ StartState

InitAcc == InitAccumulate /\ StartState

(* ------------------------------ actions ------------------------------- *)
Terminate(status, error) ==
    /\ pc' = "done"
    /\ exit' = Exit(status, error)

\* lines 243-322: validation of the flags, the date keys, the cutoff
ArgsError(a, fs) ==
    IF a.thinOrientation < 0 THEN "ConfigurationConflictError"
    ELSE IF a.thinDistance < 0 THEN "ConfigurationConflictError"
    ELSE IF a.thinDistance > 0 /\ a.thinOrientation > 0
         THEN "ConfigurationConflictError"
    ELSE IF Len(fs) = 0 THEN "NoInputError"
    ELSE IF Len(a.trackDatetimes) = 0 /\ ~(a.extractDates \/ a.mergeFiles)
         THEN "NoDateError"
    ELSE IF a.mergeFiles /\ (a.thinOrientation # 0 \/ a.thinDistance # 0)
         THEN "ConfigurationConflictError"
    ELSE IF a.timeOffsetFromUTC # <<>> /\ a.datetimeCutoff = NoCutoff
         THEN "ConfigurationConflictError"
    ELSE "none"

ParseArgs ==
    /\ pc = "args"
    /\ IF ArgsError(args, files) # "none"
       THEN /\ Terminate(2, ArgsError(args, files))
            /\ UNCHANGED <<argVars, fileI>>
       ELSE /\ parsedTrackDatetimes' = DictKeys(args.trackDatetimes)
            /\ cutoffDatetime' = IF args.datetimeCutoff # NoCutoff
                                 THEN CutoffInstant(args)
                                 ELSE cutoffDatetime
            /\ fileI' = 1
            /\ pc' = "open"
            /\ UNCHANGED exit
    /\ UNCHANGED <<inputVars, geoVars, queries, gpxSoup, selectedTracks,
                   tracksForDates, totalDistance, trackDistance, fileVars,
                   keyVars, trackVars, segVars, outFile>>

MergeTracksStripped(doc) ==
    [i \in 1..Len(FindActive(doc)) |-> <<TrackString(doc[FindActive(doc)[i]], FALSE)>>]

\* lines 376-388: every 'Active Log' track is selected as it is; the first
\* number of its first <cmt> is added to totalDistance
MergeTracks(doc) ==
    [i \in 1..Len(FindActive(doc)) |-> <<TrackString(doc[FindActive(doc)[i]], TRUE)>>]

MergeMiles100(doc) ==
    SumSeq([i \in 1..Len(FindActive(doc)) |->
               IF doc[FindActive(doc)[i]].cmt # <<>>
               THEN 100 * doc[FindActive(doc)[i]].cmt[1] ELSE 0])

\* lines 340-393: open and parse inputFile, then branch on the mode
OpenFile ==
    /\ pc = "open"
    /\ LET f == files[fileI] IN
       IF f.kind = "unreadable"
       THEN /\ Terminate(2, "InputOpenError")
            /\ UNCHANGED <<gpxSoup, selectedTracks, totalDistance, fileVars, keyI>>
       ELSE IF f.kind = "empty"
       THEN /\ gpxSoup' = <<>>
            /\ pc' = "endfile"
            /\ UNCHANGED <<exit, selectedTracks, totalDistance, fileVars, keyI>>
       ELSE IF args.extractDates
       THEN /\ gpxSoup' = f.tracks
            /\ Terminate(0, "none")
            /\ UNCHANGED <<selectedTracks, totalDistance, fileVars, keyI>>
       ELSE IF args.mergeFiles
       THEN /\ gpxSoup' = f.tracks
            /\ totalDistance' = totalDistance + MergeMiles100(f.tracks)
            /\ selectedTracks' = selectedTracks \o MergeTracks(f.tracks)
            /\ pc' = "endfile"
            /\ UNCHANGED <<exit, fileVars, keyI>>
       ELSE /\ gpxSoup' = f.tracks
            /\ tracksFound' = 0
            /\ courseFound' = TRUE
            /\ combinedDates' = <<>>
            /\ combinedDatesBound' = TRUE
            /\ keyI' = 1
            /\ pc' = "key"
            /\ UNCHANGED <<exit, selectedTracks, totalDistance>>
    /\ UNCHANGED <<inputVars, geoVars, queries, argVars, fileI,
                   tracksForDates, trackDistance, trackNames, tnI,
                   combinedTracks, trackVars, segVars, outFile>>

CurrentKey == parsedTrackDatetimes[keyI]

\* trackDatetimeString + fileIndex, the key of tracksForDates
PairOf(key, f) == <<key, FileIndexOf(f)>>

\* lines 394-405: the next date key of the file: skipped when its pair is in
\* tracksForDates, else queried; the matched names start a walk
NextKey ==
    /\ pc = "key"
    /\ keyI <= Len(parsedTrackDatetimes)
    /\ LET pair == PairOf(CurrentKey, files[fileI])
           names == FindNames(gpxSoup, CurrentKey)
           query == [file |-> fileI, key |-> keyI, names |-> names]
       IN  IF pair \in tracksForDates
           THEN /\ keyI' = keyI + 1
                /\ UNCHANGED <<pc, queries, tracksForDates, tracksFound,
                               combinedTracks, trackDistance, trackNames, tnI>>
           ELSE IF Len(names) = 0
           THEN /\ queries' = Append(queries, query)
                /\ keyI' = keyI + 1
                /\ UNCHANGED <<pc, tracksForDates, tracksFound, combinedTracks,
                               trackDistance, trackNames, tnI>>
           ELSE /\ queries' = Append(queries, query)
                /\ tracksForDates' = tracksForDates \cup {pair}
                /\ tracksFound' = tracksFound + Len(names)
                /\ combinedTracks' = <<>>
                /\ trackDistance' = 0
                /\ trackNames' = names
                /\ tnI' = 1
                /\ pc' = "track"
                /\ UNCHANGED keyI
    /\ UNCHANGED <<inputVars, geoVars, argVars, exit, fileI, gpxSoup,
                   selectedTracks, totalDistance, courseFound, combinedDates,
                   combinedDatesBound, trackVars, segVars, outFile>>

\* lines 406-410: the next matched name: its track and the track's segments
StartTrack ==
    /\ pc = "track"
    /\ tnI <= Len(trackNames)
    /\ trackDistance' = IF ~args.combineAllTracksForDate THEN 0 ELSE trackDistance
    /\ track' = gpxSoup[trackNames[tnI]]
    /\ segsTodo' = gpxSoup[trackNames[tnI]].segs
    /\ segsDone' = <<>>
    /\ pc' = "seg"
    /\ UNCHANGED <<inputVars, geoVars, queries, argVars, exit, fileI,
                   gpxSoup, selectedTracks, tracksForDates, totalDistance,
                   fileVars, keyVars, segVars, outFile>>

CutoffSet == args.datetimeCutoff # NoCutoff

DropSegmentBefore(first) ==
    CutoffSet /\ first.time # NoTime /\ first.time < cutoffDatetime

\* lines 421-432: the first point of the segment is after the cutoff
DropSegment(first) == CutoffSet /\ AfterCutoff(first, cutoffDatetime)

\* lines 411-437 (and 485 for a segment without a second point): the first
\* point of the next segment
StartSeg ==
    /\ pc = "seg"
    /\ segsTodo # <<>>
    /\ LET seg == Head(segsTodo) IN
       /\ segDistance' = 0
       /\ segsTodo' = Tail(segsTodo)
       /\ IF seg = <<>>
          THEN /\ segsDone' = Append(segsDone, seg)
               /\ UNCHANGED <<pc, courseFound, geoLocation, prevGeoLocation,
                              ptsDone, ptsTodo>>
          ELSE /\ courseFound' = (courseFound /\ seg[1].course # NoCourse)
               /\ IF DropSegment(seg[1])
                  THEN UNCHANGED <<pc, segsDone, geoLocation, prevGeoLocation,
                                   ptsDone, ptsTodo>>
                  ELSE /\ geoLocation' = GeoLocationOf(seg[1])
                       /\ prevGeoLocation' = GeoLocationOf(seg[1])
                       /\ IF Len(seg) = 1
                          THEN /\ segsDone' = Append(segsDone, seg)
                               /\ UNCHANGED <<pc, ptsDone, ptsTodo>>
                          ELSE /\ ptsDone' = <<seg[1]>>
                               /\ ptsTodo' = Tail(seg)
                               /\ pc' = "point"
                               /\ UNCHANGED segsDone
    /\ UNCHANGED <<inputVars, geoVars, queries, argVars, exit, fileI,
                   gpxSoup, selectedTracks, tracksForDates, totalDistance,
                   trackDistance, tracksFound, combinedDates,
                   combinedDatesBound, keyVars, track, outFile>>

\* lines 441-450: the point is after the cutoff
SkipPoint(p) == CutoffSet /\ AfterCutoff(p, cutoffDatetime)

KeepPointFromPrevious(geo, nxt, last) ==
    IF args.thinDistance # 0
       /\ ~KeepDistance(prevGeoLocation, nxt, args.thinDistance, last)
    THEN FALSE
    ELSE IF args.thinOrientation # 0
            /\ ~KeepOrientation(prevGeoLocation, nxt, args.thinOrientation, last)
    THEN FALSE
    ELSE TRUE

\* lines 462-483: whether nextTrackPoint stays in the segment
KeepPoint(geo, nxt, last) ==
    IF args.thinDistance # 0 /\ ~KeepDistance(geo, nxt, args.thinDistance, last)
    THEN FALSE
    ELSE IF args.thinOrientation # 0
            /\ ~KeepOrientation(geo, nxt, args.thinOrientation, last)
    THEN FALSE
    ELSE TRUE

NextSegDistanceKept(dist, prev, nxt, skip) == FAdd(dist, Dist(prev, nxt))

\* lines 458-466: segDistance after the point
NextSegDistance(dist, prev, nxt, skip) ==
    IF skip THEN FSub(FAdd(dist, Dist(prev, nxt)), Dist(prev, nxt))
    ELSE FAdd(dist, Dist(prev, nxt))

\* lines 475-479: orientation thinning met a point with courseFound false
MissingCourse(found, skip) == args.thinOrientation # 0 /\ ~skip /\ ~found

\* lines 439-485: one turn of the while loop, on nextTrackPoint; after the
\* last point the segment's distance is added to the track's
StepPoint ==
    /\ pc = "point"
    /\ LET p == Head(ptsTodo)
           skip == SkipPoint(p)
           found == courseFound /\ p.course # NoCourse
           nxt == GeoLocationOf(p)
           last == Len(ptsTodo) = 1
           keep == ~skip /\ KeepPoint(geoLocation, nxt, last)
           dist == NextSegDistance(segDistance, prevGeoLocation, nxt, skip)
           pts == IF keep THEN Append(ptsDone, p) ELSE ptsDone
       IN  /\ courseFound' = found
           /\ IF MissingCourse(found, skip)
              THEN /\ Terminate(2, "MissingCourseDataError")
                   /\ segDistance' = dist
                   /\ prevGeoLocation' = nxt
                   /\ UNCHANGED <<geoLocation, ptsDone, ptsTodo, segsDone,
                                  trackDistance>>
              ELSE /\ segDistance' = dist
                   /\ prevGeoLocation' = nxt
                   /\ geoLocation' = IF skip \/ keep THEN nxt ELSE geoLocation
                   /\ ptsDone' = pts
                   /\ ptsTodo' = Tail(ptsTodo)
                   /\ IF last
                      THEN /\ trackDistance' = FAdd(trackDistance, dist)
                           /\ segsDone' = Append(segsDone, pts)
                           /\ pc' = "seg"
                      ELSE UNCHANGED <<trackDistance, segsDone, pc>>
                   /\ UNCHANGED exit
    /\ UNCHANGED <<inputVars, geoVars, queries, argVars, fileI, gpxSoup,
                   selectedTracks, tracksForDates, totalDistance,
                   tracksFound, combinedDates, combinedDatesBound, keyVars,
                   track, segsTodo, outFile>>

\* lines 486-489: the mileage comment of a track that is not combined
WithComment(t, km) ==
    IF ~args.combineAllTracksForDate /\ km > 0
    THEN [t EXCEPT !.cmt = <<Round100(Miles100(km))>> \o @]
    ELSE t

\* lines 490-492: a combined track loses its own <name>
WithoutName(t) ==
    IF args.combineAllTracksForDate THEN [t EXCEPT !.name = <<>>] ELSE t

\* lines 497-500: the label of the key joins combinedDates once
AddDate(dates, key) ==
    IF args.combineAllTracksForDate /\ Label(key) \notin Range(dates)
    THEN Append(dates, Label(key))
    ELSE dates

\* lines 486-502: the walked track gets its comment, loses its name when
\* combining, and its text joins combinedTracks
EndTrack ==
    /\ pc = "seg"
    /\ segsTodo = <<>>
    /\ LET t == WithoutName(WithComment([track EXCEPT !.segs = segsDone],
                                        trackDistance))
       IN  /\ track' = t
           /\ gpxSoup' = [gpxSoup EXCEPT ![trackNames[tnI]] = t]
           /\ combinedTracks' =
                Append(combinedTracks,
                       TrackString(t, ~args.combineAllTracksForDate))
    /\ combinedDates' = AddDate(combinedDates, CurrentKey)
    /\ tnI' = tnI + 1
    /\ pc' = "track"
    /\ UNCHANGED <<inputVars, geoVars, queries, argVars, exit, fileI,
                   selectedTracks, tracksForDates, totalDistance,
                   trackDistance, tracksFound, courseFound,
                   combinedDatesBound, keyI, trackNames, segsDone, segsTodo,
                   segVars, outFile>>

\* line 503: the tracks of the key, as one string, join selectedTracks
EndKey ==
    /\ pc = "track"
    /\ tnI > Len(trackNames)
    /\ selectedTracks' = Append(selectedTracks, combinedTracks)
    /\ keyI' = keyI + 1
    /\ pc' = "key"
    /\ UNCHANGED <<inputVars, geoVars, queries, argVars, exit, fileI,
                   gpxSoup, tracksForDates, totalDistance, trackDistance,
                   fileVars, trackNames, tnI, combinedTracks, trackVars,
                   segVars, outFile>>

\* lines 504-511: after the last key of the file
CheckMatches ==
    /\ pc = "key"
    /\ keyI > Len(parsedTrackDatetimes)
    /\ IF MultipleMatch(tracksFound, args.combineAllTracksForDate)
       THEN Terminate(2, "MultipleMatchError")
       ELSE /\ pc' = "endfile"
            /\ UNCHANGED exit
    /\ UNCHANGED <<inputVars, geoVars, queries, argVars, fileI, gpxSoup,
                   selectedTracks, tracksForDates, totalDistance,
                   trackDistance, fileVars, keyVars, trackVars, segVars,
                   outFile>>

\* line 516, then the next turn of the loop over inputFiles
EndFile ==
    /\ pc = "endfile"
    /\ totalDistance' = totalDistance + Miles100(trackDistance)
    /\ IF fileI < Len(files)
       THEN /\ fileI' = fileI + 1
            /\ pc' = "open"
       ELSE /\ pc' = "finish"
            /\ UNCHANGED fileI
    /\ UNCHANGED <<inputVars, geoVars, queries, argVars, exit, gpxSoup,
                   selectedTracks, tracksForDates, trackDistance, fileVars,
                   keyVars, trackVars, segVars, outFile>>

\* lines 534-541: the output document; with -c one <trk> whose name embeds
\* combinedDates and whose comment is round(totalDistance)
OutString(selected, dates, total) ==
    IF args.combineAllTracksForDate
    THEN <<[trk |-> TRUE,
            name |-> <<[combined |-> dates]>>,
            cmt |-> <<Round100(total)>>,
            parts |-> Flatten(selected)]>>
    ELSE Flatten(selected)

FinishWriteFirst ==
    /\ pc = "finish"
    /\ outFile' = OutString(selectedTracks, combinedDates, totalDistance)
    /\ IF NoMatch(selectedTracks)
       THEN Terminate(2, "NoMatchError")
       ELSE Terminate(0, "none")
    /\ UNCHANGED <<inputVars, geoVars, queries, argVars, fileI, gpxSoup,
                   selectedTracks, tracksForDates, totalDistance,
                   trackDistance, fileVars, keyVars, trackVars, segVars>>

\* lines 517-549: no selected track is an error; else compose and write
Finish ==
    /\ pc = "finish"
    /\ IF NoMatch(selectedTracks)
       THEN /\ Terminate(2, "NoMatchError")
            /\ UNCHANGED outFile
       ELSE IF args.combineAllTracksForDate /\ ~combinedDatesBound
       THEN /\ Terminate(1, "NameError")
            /\ UNCHANGED outFile
       ELSE /\ outFile' = OutString(selectedTracks, combinedDates, totalDistance)
            /\ Terminate(0, "none")
    /\ UNCHANGED <<inputVars, geoVars, queries, argVars, fileI, gpxSoup,
                   selectedTracks, tracksForDates, totalDistance,
                   trackDistance, fileVars, keyVars, trackVars, segVars>>

Next ==
    \/ ParseArgs
    \/ OpenFile
    \/ NextKey
    \/ StartTrack
    \/ StartSeg
    \/ StepPoint
    \/ EndTrack
    \/ EndKey
    \/ CheckMatches
    \/ EndFile
    \/ Finish

Spec == Init /\ [][Next]_vars

SpecSeg == InitSeg /\ [][Next]_vars

SpecAcc == InitAcc /\ [][Next]_vars

\* the selection runs and the orientation runs together: every failure of a
\* run over its input
InitAny == (InitSelection \/ InitOrientation) /\ StartState

SpecAny == InitAny /\ [][Next]_vars

TypeOK ==
    /\ pc \in {"args", "open", "key", "track", "seg", "point", "endfile",
               "finish", "done"}
    /\ exit.status \in {-1, 0, 1, 2}
    /\ (pc = "done") = (exit # Running)

(* ------------------------ the GeoLocation class ----------------------- *)
(* The class on its own, as a caller of its four entry points sees it.     *)
(* Angles are counted in half degrees, so that a fractional course exists  *)
(* and int() has something to cut; math.radians and math.degrees are exact *)
(* on that grid and map an angle to the same count.                        *)
Deg(d) == 2 * d

Radians(x) == x

Degrees(x) == x

\* int(x): towards zero, to a whole number of degrees
IntOf(x) == IF x >= 0 THEN 2 * (x \div 2) ELSE 0 - 2 * ((0 - x) \div 2)

MIN_LAT == Radians(Deg(-90))
MAX_LAT == Radians(Deg(90))
MIN_LON == Radians(Deg(-180))
MAX_LON == Radians(Deg(180))
MIN_COURSE == Radians(Deg(0))
MAX_COURSE == Radians(Deg(360))

\* __init__ up to the call of _check_bounds
GeoLocationInit(rad_lat, rad_lon, deg_lat, deg_lon, rad_course, deg_course) ==
    [rad_lat |-> rad_lat, rad_lon |-> rad_lon,
     deg_lat |-> deg_lat, deg_lon |-> deg_lon,
     rad_course |-> rad_course, deg_course |-> IntOf(deg_course)]

\* _check_bounds raises
IllegalArguments(o) ==
    \/ o.rad_lat < MIN_LAT
    \/ o.rad_lat > MAX_LAT
    \/ o.rad_lon < MIN_LON
    \/ o.rad_lon > MAX_LON
    \/ o.rad_course < MIN_COURSE
    \/ o.rad_course > MAX_COURSE

LatValues == {Deg(-91), Deg(-90), Deg(0), Deg(45), Deg(90), Deg(91)}
LonValues == {Deg(-181), Deg(-180), Deg(0), Deg(180), Deg(181)}
CourseValues == {Deg(-1), -1, Deg(0), 1, Deg(359), Deg(360), 721, Deg(361)}

mainVars == <<pc, exit, argVars, fileI, gpxSoup, selectedTracks,
              tracksForDates, totalDistance, trackDistance, fileVars, keyVars,
              trackVars, segVars, outFile, queries>>

\* a constructor that raises returns no object: the caller keeps what it had
Construct(o) ==
    /\ geoRaised' = IllegalArguments(o)
    /\ geoObj' = IF IllegalArguments(o) THEN geoObj ELSE o
    /\ UNCHANGED <<inputVars, mainVars>>

from_degrees ==
    \E lat \in LatValues, lon \in LonValues, course \in CourseValues :
        Construct(GeoLocationInit(Radians(lat), Radians(lon), lat, lon,
                                  Radians(course), course))

from_radians ==
    \E lat \in LatValues, lon \in LonValues, course \in CourseValues :
        Construct(GeoLocationInit(lat, lon, Degrees(lat), Degrees(lon),
                                  course, Degrees(course)))

\* the setters assign first and check afterwards
set_deg_course ==
    /\ geoObj # NoObject
    /\ \E course \in CourseValues :
        LET o == [geoObj EXCEPT !.deg_course = IntOf(course),
                                !.rad_course = Radians(IntOf(course))]
        IN  /\ geoObj' = o
            /\ geoRaised' = IllegalArguments(o)
    /\ UNCHANGED <<inputVars, mainVars>>

set_rad_course ==
    /\ geoObj # NoObject
    /\ \E course \in CourseValues :
        LET o == [geoObj EXCEPT !.rad_course = course,
                                !.deg_course = IntOf(Degrees(course))]
        IN  /\ geoObj' = o
            /\ geoRaised' = IllegalArguments(o)
    /\ UNCHANGED <<inputVars, mainVars>>

InitGeo ==
    /\ StartState
    /\ files = <<>>
    /\ args = Args(FALSE, FALSE, 0, 0, NoCutoff, <<>>, <<>>)

NextGeo ==
    \/ from_degrees
    \/ from_radians
    \/ set_deg_course
    \/ set_rad_course

SpecGeo == InitGeo /\ [][NextGeo]_vars

(* ======================= selection and composition ==================== *)
Done == pc = "done"

Succeeded == Done /\ exit.status = 0

Combine == args.combineAllTracksForDate

\* a run that selects by date key and passes the validation of its flags
DateRun ==
    /\ ~args.mergeFiles
    /\ ~args.extractDates
    /\ ArgsError(args, files) = "none"

FileIds == 1..Len(files)

AllRead == \A i \in FileIds : files[i].kind # "unreadable"

RequestedKeys == Range(args.trackDatetimes)

\* how many track names of input file i, as supplied, match the key
Matches(i, key) == Len(FindNames(files[i].tracks, key))

MatchedTrack(i, key) == files[i].tracks[FindNames(files[i].tracks, key)[1]]

DistinctFileIndexes ==
    \A i, j \in FileIds : i # j => FileIndexOf(files[i]) # FileIndexOf(files[j])

\* the top-level <trk> elements of the written document
OutTracks == {j \in 1..Len(outFile) : outFile[j].trk}

\* kilometres along the points of a segment, of the segments of a track
SegKm(seg) ==
    LET F[i \in 1..Len(seg)] ==
            IF i = 1 THEN 0 ELSE F[i - 1] + Abs(seg[i].pos - seg[i - 1].pos)
    IN  IF seg = <<>> THEN 0 ELSE F[Len(seg)]

SegsKm(segs) == SumSeq([s \in 1..Len(segs) |-> SegKm(segs[s])])

Count(s, x) == Cardinality({i \in 1..Len(s) : s[i] = x})

\* C1: with combine off, when every requested DateKey matches exactly one
\* track name in an input source (no more than one in any source, and no
\* track is matched by two keys), the run ends with status 0 and every such
\* track is in the output.
C1_EveryKeyResolved ==
    (/\ Done
     /\ DateRun
     /\ ~Combine
     /\ AllRead
     /\ DistinctFileIndexes
     /\ \A k \in RequestedKeys :
            /\ \A i \in FileIds : Matches(i, k) <= 1
            /\ \E i \in FileIds : Matches(i, k) = 1
     /\ \A k1, k2 \in RequestedKeys : \A i \in FileIds :
            (k1 # k2 /\ Matches(i, k1) = 1 /\ Matches(i, k2) = 1)
                => MatchedTrack(i, k1) # MatchedTrack(i, k2))
    => /\ exit.status = 0
       /\ \A k \in RequestedKeys : \A i \in FileIds :
            Matches(i, k) = 1 =>
                \E j \in OutTracks : outFile[j].name = MatchedTrack(i, k).name

\* C2: with combine off, when a requested DateKey matches more than one
\* track name in one input source, the run ends with status 2.
C2_MultipleMatchFails ==
    (/\ Done
     /\ ~args.mergeFiles
     /\ ~args.extractDates
     /\ ~Combine
     /\ \E k \in RequestedKeys : \E i \in FileIds : Matches(i, k) > 1)
    => exit.status = 2

\* C3: with combine on, the mileage in the combined track's comment is the
\* rounded mileage of the sum of the distances of all tracks placed in the
\* combined track.
C3_CombinedMileage ==
    (Succeeded /\ DateRun /\ Combine /\ DistinctFileIndexes)
    => outFile[1].cmt[1] =
          Round100(Miles100(SumSeq([p \in 1..Len(outFile[1].parts) |->
                                       SegsKm(outFile[1].parts[p].segs)])))

\* C4: with combine on, the name of the combined track embeds the date label
\* of every DateKey that matched a track in any input source, each once.
C4_CombinedName ==
    (Succeeded /\ DateRun /\ Combine /\ DistinctFileIndexes)
    => \A pair \in tracksForDates :
          Count(outFile[1].name[1].combined, Label(pair[1])) = 1

\* two input sources, each with one track whose name has the sentinel
TwoSentinelSources ==
    /\ Len(files) = 2
    /\ \A i \in FileIds :
          files[i].kind = "ok" /\ Len(FindActive(files[i].tracks)) = 1

SentinelTrack(i) == files[i].tracks[FindActive(files[i].tracks)[1]]

\* C5 as stated: in merge mode with two input sources that each contain one
\* sentinel-matching track, the output holds exactly one track with the
\* content of both, and no DateKey is matched.
C5_MergeOneTrack ==
    (Done /\ args.mergeFiles /\ ~args.extractDates /\ TwoSentinelSources)
    => /\ exit.status = 0
       /\ Cardinality(OutTracks) = 1
       /\ tracksForDates = {}

\* C5 as amended: in merge mode without combine, with two input sources that
\* each contain one sentinel-matching track, the run ends with status 0 and
\* the output holds exactly two tracks, the sentinel track of the first
\* source and then that of the second, each as it was read; no DateKey is
\* matched.
C5_MergeTwoTracks ==
    (Done /\ args.mergeFiles /\ ~args.extractDates /\ ~Combine
          /\ TwoSentinelSources)
    => /\ exit.status = 0
       /\ Len(outFile) = 2
       /\ \A i \in 1..2 : outFile[i] = TrackString(SentinelTrack(i), TRUE)
       /\ tracksForDates = {}
       /\ keyI = 0

C5_Witness ==
    /\ Succeeded
    /\ args.mergeFiles
    /\ ~Combine
    /\ TwoSentinelSources
    /\ args.trackDatetimes # <<>>
    /\ SentinelTrack(1) # SentinelTrack(2)
    /\ Cardinality(OutTracks) = 2

\* C6: a (DateKey, source) pair without a match does not end the run; a run
\* that read all its sources ends with NoMatchError, status 2, exactly when
\* no source has a track name matching any requested key.
C6_NoMatchIffNothingMatched ==
    (Done /\ DateRun /\ AllRead)
    => /\ (exit.error = "NoMatchError")
            = (\A k \in RequestedKeys : \A i \in FileIds : Matches(i, k) = 0)
       /\ (exit.error = "NoMatchError" => exit.status = 2)

C6_Witness ==
    /\ Succeeded
    /\ DateRun
    /\ Len(files) > 1
    /\ Len(parsedTrackDatetimes) > 1
    /\ \E k \in RequestedKeys : \E i \in FileIds :
          files[i].kind = "ok" /\ Matches(i, k) = 0

(* ========================= thinning and cutoff ======================== *)
\* a run over one source with one track of one segment, selected by its date
OneSegment ==
    /\ DateRun
    /\ ~Combine
    /\ Len(files) = 1
    /\ files[1].kind = "ok"
    /\ Len(files[1].tracks) = 1
    /\ Len(files[1].tracks[1].segs) = 1
    /\ \E k \in RequestedKeys : Matches(1, k) = 1

\* the segment as read, and as written (no points when it was removed)
InSeg == files[1].tracks[1].segs[1]

OutSeg == IF outFile[1].segs = <<>> THEN <<>> ELSE outFile[1].segs[1]

DistanceThinning == args.thinDistance > 0

OrientationThinning == args.thinOrientation > 0

\* C7: in distance thinning without a cutoff, for every positive threshold,
\* the first and the last point of a segment with at least one point are
\* both in the thinned segment, as its first and its last point.
C7_FirstAndLastRetained ==
    (Succeeded /\ OneSegment /\ DistanceThinning /\ ~CutoffSet /\ InSeg # <<>>)
    => /\ OutSeg # <<>>
       /\ OutSeg[1] = InSeg[1]
       /\ OutSeg[Len(OutSeg)] = InSeg[Len(InSeg)]

C7_Witness ==
    /\ Succeeded
    /\ OneSegment
    /\ DistanceThinning
    /\ ~CutoffSet
    /\ Len(InSeg) = MaxPts
    /\ Len(OutSeg) = 2
    /\ InSeg[1] # InSeg[Len(InSeg)]

VisitedKm(seg) ==
    LET F[i \in 1..Len(seg)] ==
            IF i = 1 THEN 0
            ELSE F[i - 1] + IF SkipPoint(seg[i]) THEN 0
                            ELSE Abs(seg[i].pos - seg[i - 1].pos)
    IN  IF seg = <<>> \/ DropSegment(seg[1]) THEN 0 ELSE F[Len(seg)]

SegmentWalked ==
    /\ tracksForDates # {}
    /\ \/ pc = "seg" /\ segsTodo = <<>>
       \/ pc = "track" /\ tnI > 1
       \/ pc \in {"key", "endfile", "finish", "done"}

\* C9: with a cutoff, a segment whose first point has a timestamp after the
\* cutoff is removed whole from its track and adds 0 to the track distance.
C9_SegmentAfterCutoffDropped ==
    (/\ OneSegment
     /\ CutoffSet
     /\ InSeg # <<>>
     /\ SegmentWalked
     /\ AfterCutoff(InSeg[1], cutoffDatetime))
    => /\ segsDone = <<>>
       /\ trackDistance = 0
       /\ pc \in {"key", "endfile", "finish", "done"}
            => Flatten(selectedTracks)[1].segs = <<>>
       /\ Done => exit.status = 0 /\ outFile[1].segs = <<>> /\ outFile[1].cmt = <<>>

C9_Witness ==
    /\ Succeeded
    /\ OneSegment
    /\ CutoffSet
    /\ Len(InSeg) > 1
    /\ AfterCutoff(InSeg[1], cutoffDatetime)
    /\ \E i \in 2..Len(InSeg) : InSeg[i].pos # InSeg[1].pos
    /\ outFile[1].segs = <<>>

\* the points of the segment the walk reads the course of
Visited(seg) ==
    IF seg = <<>> THEN {}
    ELSE IF DropSegment(seg[1]) THEN {seg[1]}
    ELSE Range(seg)

\* C10: in orientation thinning, when any visited point of a matched track
\* has no course, the run ends with MissingCourseDataError, status 2, and
\* writes no output.
C10_MissingCourseFails ==
    (/\ Done
     /\ OneSegment
     /\ OrientationThinning
     /\ \E p \in Visited(InSeg) : p.course = NoCourse)
    => /\ exit = Exit(2, "MissingCourseDataError")
       /\ outFile = <<>>

(* ============================ exit statuses =========================== *)
\* C11: for every combination of flags and inputs main ends with status 0
\* (success) or status 2 (a validation or runtime failure); no run ends with
\* another status or with an exception that is not handled.
C11_UniformExit == Done => exit.status \in {0, 2}

(* ============================= GeoLocation ============================ *)
\* C12: every GeoLocation that exists after any sequence of from_degrees,
\* from_radians, set_deg_course and set_rad_course calls has its latitude in
\* [-90, 90] degrees, its longitude in [-180, 180] degrees and its course in
\* [0, 360] degrees: a call given a value out of range raises and leaves no
\* object holding such a value.
C12_GeoLocationInBounds ==
    geoObj # NoObject
    => /\ geoObj.deg_lat >= Deg(-90) /\ geoObj.deg_lat <= Deg(90)
       /\ geoObj.rad_lat >= MIN_LAT /\ geoObj.rad_lat <= MAX_LAT
       /\ geoObj.deg_lon >= Deg(-180) /\ geoObj.deg_lon <= Deg(180)
       /\ geoObj.rad_lon >= MIN_LON /\ geoObj.rad_lon <= MAX_LON
       /\ geoObj.deg_course >= Deg(0) /\ geoObj.deg_course <= Deg(360)
       /\ geoObj.rad_course >= MIN_COURSE /\ geoObj.rad_course <= MAX_COURSE

(* ========================== thinning, in full ========================= *)
\* the cutoff excludes no point of the segment
NoneExcluded(seg) == \A i \in 1..Len(seg) : ~SkipPoint(seg[i])

\* The reference anchor algorithm: the anchor starts at the first point; each
\* later point, in order, is retained and becomes the anchor iff far(anchor,
\* point) or it is the last point of the segment.
RefThin(seg, far(_, _)) ==
    LET F[i \in 1..Len(seg)] ==
            IF i = 1 THEN [out |-> <<seg[1]>>, anchor |-> seg[1]]
            ELSE IF far(F[i - 1].anchor, seg[i]) \/ i = Len(seg)
                 THEN [out |-> Append(F[i - 1].out, seg[i]), anchor |-> seg[i]]
                 ELSE F[i - 1]
    IN  IF seg = <<>> THEN <<>> ELSE F[Len(seg)].out

FarKm(a, b) == Abs(a.pos - b.pos) > args.thinDistance

\* C13: distance thinning of a segment equals the reference anchor algorithm
\* with "far" meaning a distance from the anchor strictly greater than the
\* threshold; the retained points keep their order.
C13_DistanceThinningIsAnchorAlgorithm ==
    (Succeeded /\ OneSegment /\ DistanceThinning /\ NoneExcluded(InSeg))
    => OutSeg = RefThin(InSeg, FarKm)

\* a point is within the threshold of the point before it and beyond it from
\* the anchor, and a point at exactly the threshold is removed
C13_Witness ==
    /\ Succeeded
    /\ OneSegment
    /\ DistanceThinning
    /\ NoneExcluded(InSeg)
    /\ Len(InSeg) = 4
    /\ Abs(InSeg[2].pos - InSeg[1].pos) = args.thinDistance
    /\ Abs(InSeg[3].pos - InSeg[2].pos) <= args.thinDistance
    /\ Abs(InSeg[3].pos - InSeg[1].pos) > args.thinDistance
    /\ OutSeg = <<InSeg[1], InSeg[3], InSeg[4]>>

\* the circular difference of two courses, min(|a - b|, 360 - |a - b|)
Wrapped(a, b) ==
    IF Abs(a - b) <= 360 - Abs(a - b) THEN Abs(a - b) ELSE 360 - Abs(a - b)

FarWrapped(a, b) == Wrapped(CourseOf(a), CourseOf(b)) > args.thinOrientation

\* C14: orientation thinning compares the anchor and the candidate by the
\* wrapped course difference: a candidate that is not the last point and
\* whose course is within the threshold of the anchor's across the 0/360
\* seam is removed.
C14_WrappedCourseDifference ==
    (/\ Succeeded
     /\ OneSegment
     /\ OrientationThinning
     /\ NoneExcluded(InSeg)
     /\ \A i \in 1..Len(InSeg) : InSeg[i].course # NoCourse)
    => OutSeg = RefThin(InSeg, FarWrapped)

(* ===================== the cutoff and the distance ==================== *)
\* the walk is about to process a point that the cutoff drops
DropsNext == pc = "point" /\ SkipPoint(Head(ptsTodo))

\* C15: for every point dropped by the cutoff, the running segment distance
\* after the point is processed equals its value before: the delta added for
\* the point is subtracted exactly once, also when several consecutive points
\* are dropped, and the segment distance never becomes negative.
C15_DeltaCancels ==
    [][DropsNext => (segDistance' = segDistance /\ segDistance' >= 0)]_vars

\* the offset of +hh:mm or -hh:mm from UTC, in minutes: sign * (hh h + mm min)
SignedOffset(off) ==
    IF off = <<>> THEN 0 ELSE off[1] * (off[2] * 60 + off[3])

\* the instant, in UTC, of the local cutoff at that offset
LocalCutoffInUTC == args.datetimeCutoff - SignedOffset(args.timeOffsetFromUTC)

\* C16: for an offset +hh:mm or -hh:mm the cutoff instant is the given local
\* date-time at sign * (hh hours + mm minutes) from UTC, so a point with UTC
\* timestamp t is after the cutoff iff t > local cutoff - that offset; the
\* offset is applied once, before any source is read, and is the same for
\* every point.
C16_OffsetSemantics ==
    (CutoffSet /\ ArgsError(args, files) = "none" /\ pc # "args")
    => /\ cutoffDatetime = LocalCutoffInUTC
       /\ pc = "point" =>
            \A i \in 1..Len(ptsTodo) :
                ptsTodo[i].time # NoTime =>
                    SkipPoint(ptsTodo[i]) = (ptsTodo[i].time > LocalCutoffInUTC)

(* ====================== memoization and ordering ====================== *)
KeyIds == 1..Len(parsedTrackDatetimes)

\* positions i and j of the command line name the same input source
SameSource(i, j) == files[i] = files[j]

\* the query of key k in the file at position i found a track: the pair is
\* resolved
Resolved(i, k) ==
    \E q \in 1..Len(queries) :
        queries[q].file = i /\ queries[q].key = k /\ queries[q].names # <<>>

Queried(i, k) ==
    \E q \in 1..Len(queries) : queries[q].file = i /\ queries[q].key = k

\* the loop over the keys has gone past key k in the file at position i
Passed(i, k) ==
    \/ fileI > i
    \/ /\ fileI = i
       /\ \/ pc \in {"endfile", "finish"}
          \/ pc \in {"key", "track", "seg", "point", "done"} /\ keyI > k

\* C17: resolution is memoized per (DateKey, input source): a resolved pair is
\* never queried again, and for two distinct input files the resolution of a
\* key in one never suppresses the query of a key in the other: every key is
\* queried in every source unless that same source resolved it before.
C17_MemoizedPerKeyAndSource ==
    DateRun =>
        /\ \A a, b \in 1..Len(queries) :
              (a < b /\ queries[a].key = queries[b].key
                     /\ SameSource(queries[a].file, queries[b].file))
              => queries[a].names = <<>>
        /\ \A i \in FileIds : \A k \in KeyIds :
              (files[i].kind = "ok" /\ Passed(i, k))
              => \/ Queried(i, k)
                 \/ \E j \in 1..(i - 1) : SameSource(j, i) /\ Resolved(j, k)

\* where in the -d options a key was first requested
FirstRequest(key) ==
    CHOOSE n \in 1..Len(args.trackDatetimes) :
        /\ args.trackDatetimes[n] = key
        /\ \A m \in 1..(n - 1) : args.trackDatetimes[m] # key

\* the tracks of the written document, in order
Written == IF Combine THEN outFile[1].parts ELSE outFile

\* the tracks the queries matched, as supplied: by query, then as the
\* document of the source lists them
MatchedInOrder ==
    Flatten([q \in 1..Len(queries) |->
                [n \in 1..Len(queries[q].names) |->
                    files[queries[q].file].tracks[queries[q].names[n]]]])

\* the written track w is the supplied track t: its segments, its name
\* unless combined, its comment after the mileage the run may put before it
IsTrack(w, t) ==
    /\ w.segs = t.segs
    /\ Combine \/ w.name = t.name
    /\ w.cmt = t.cmt \/ (w.cmt # <<>> /\ Tail(w.cmt) = t.cmt)

\* the sentinel tracks of all sources, by source, then in document order
SentinelsInOrder ==
    Flatten([i \in FileIds |->
                IF files[i].kind = "ok"
                THEN [n \in 1..Len(FindActive(files[i].tracks)) |->
                         files[i].tracks[FindActive(files[i].tracks)[n]]]
                ELSE <<>>])

\* C18: input sources are processed in the order supplied and, within a
\* source, the DateKeys in the order first requested; the tracks of the
\* output document are in that order: by source, then by key, then as the
\* source's document lists them.
C18_ProcessingAndOutputOrder ==
    /\ (DateRun /\ pc # "args") =>
          /\ \A a, b \in KeyIds :
                a < b => FirstRequest(parsedTrackDatetimes[a])
                            < FirstRequest(parsedTrackDatetimes[b])
          /\ Range(parsedTrackDatetimes) = RequestedKeys
          /\ \A a, b \in 1..Len(queries) :
                a < b => \/ queries[a].file < queries[b].file
                         \/ /\ queries[a].file = queries[b].file
                            /\ queries[a].key < queries[b].key
          /\ \A q \in 1..Len(queries) : \A m, n \in 1..Len(queries[q].names) :
                m < n => queries[q].names[m] < queries[q].names[n]
    /\ (DateRun /\ Succeeded) =>
          /\ Len(Written) = Len(MatchedInOrder)
          /\ \A j \in 1..Len(Written) : IsTrack(Written[j], MatchedInOrder[j])
    /\ (args.mergeFiles /\ ~args.extractDates /\ Succeeded) =>
          /\ Len(Written) = Len(SentinelsInOrder)
          /\ \A j \in 1..Len(Written) : IsTrack(Written[j], SentinelsInOrder[j])

\* two sources, two keys, and in one source the track of the first key stands
\* after the track of the second key
C18_Witness ==
    /\ Succeeded
    /\ DateRun
    /\ Len(files) = 2
    /\ Len(parsedTrackDatetimes) = 2
    /\ Len(Written) >= 3
    /\ \E a, b \in 1..Len(queries) :
          /\ a < b
          /\ queries[a].file = queries[b].file
          /\ queries[a].names # <<>>
          /\ queries[b].names # <<>>
          /\ queries[a].names[1] > queries[b].names[1]

(* ============================ the output file ========================= *)
InputFailures ==
    {"InputOpenError", "NoMatchError", "MultipleMatchError",
     "MissingCourseDataError"}

\* C19: the output file is written only after every input source has been
\* processed without error: a run that fails with an input open error,
\* NoMatchError, MultipleMatchError or MissingCourseDataError has written
\* nothing, and nothing is written while a source is still to be processed.
C19_OutputOnlyAfterAllInputs ==
    /\ (Done /\ exit.error \in InputFailures) => outFile = <<>>
    /\ outFile # <<>> =>
          /\ Succeeded
          /\ fileI = Len(files)
          /\ \A i \in FileIds : files[i].kind # "unreadable"

\* the second source cannot be opened after tracks of the first were selected
C19_Witness ==
    /\ Done
    /\ exit = Exit(2, "InputOpenError")
    /\ fileI = 2
    /\ selectedTracks # <<>>
    /\ outFile = <<>>

(* ========================= cutoff with thinning ======================= *)
\* the last point of the segment that the cutoff does not exclude
LastIncluded(seg) ==
    CHOOSE i \in 1..Len(seg) :
        /\ ~SkipPoint(seg[i])
        /\ \A j \in (i + 1)..Len(seg) : SkipPoint(seg[j])

\* C20: with a cutoff and distance or orientation thinning together, in every
\* segment that is not dropped whole the last point the cutoff does not
\* exclude is retained in the output, and the thinning anchor is at every
\* step a point that is itself retained.
C20_CutoffWithThinning ==
    (/\ OneSegment
     /\ CutoffSet
     /\ DistanceThinning \/ OrientationThinning
     /\ InSeg # <<>>
     /\ ~DropSegment(InSeg[1]))
    => /\ Succeeded =>
            /\ OutSeg # <<>>
            /\ OutSeg[Len(OutSeg)] = InSeg[LastIncluded(InSeg)]
       /\ pc = "point" =>
            \E i \in 1..Len(ptsDone) : geoLocation = GeoLocationOf(ptsDone[i])

====
